---- MODULE Spec2Model ----
(***************************************************************************)
(* Model of the Telegram Mini App authentication gate                      *)
(* (api/dependencies.py get_current_user), its pure helpers                *)
(* (common/auth/telegram.py TelegramAuth) and the user store               *)
(* (common/db/postgres/interactors/user.py UserInteractor over the         *)
(* transactional session of common/db/postgres/base.py get_session: every  *)
(* interactor method opens its own session, commits it when its body ends  *)
(* and rolls it back when the body raises).  The gate reaches the store    *)
(* through uow.users.get_or_create, taken to be                            *)
(* UserInteractor.get_or_create.  The @cached wrapper of common/cache.py   *)
(* is modelled around get_by_id, as its docstring applies it.              *)
(*                                                                         *)
(* A raw token is a sequence of atoms.  The separator characters ";", "&"  *)
(* and "=" are atoms of their own; every other atom is a run of characters *)
(* that contains no separator, no "%" and no "+", so percent-decoding      *)
(* leaves it as it is.  Strings are built with \o exactly as the code      *)
(* builds them (the data-check-string, the HMAC input).                    *)
(***************************************************************************)
EXTENDS Integers, Sequences, FiniteSets, TLC

VARIABLES
    cfg,      \* config singleton: [debug_token, bot_token]            (config.py)
    now,      \* current unix time read by check_expiration
    dbUp,     \* TRUE while PostgreSQL answers
    users,    \* committed rows of table "users"
    nextId,   \* next value of the users.id autoincrement sequence
    pc,       \* position of each request / handler / caller
    call,     \* arguments of the running operation
    found,    \* row read by the SELECT of get_or_create
    pend,     \* flushed, not yet committed write of the open transaction
    res,      \* outcome of the finished operation
    redisUp,  \* TRUE while Redis answers
    cache     \* Redis: cache key -> entry written by the @cached wrapper

vars == <<cfg, now, dbUp, users, nextId, pc, call, found, pend, res, redisUp, cache>>

-----------------------------------------------------------------------------
(* Bounds *)

MaxId == 2          \* ids the sequence hands out before the model stops inserting
MaxTicks == 1       \* seconds the clock advances

(* Program constants *)

DefaultMaxAge == 86400      \* check_expiration(max_age_seconds=86400)

(* Environment *)

Epoch == 100000             \* unix time at the start of a behaviour

ApiProcs == {"api1", "api2"}    \* concurrent API requests (get_current_user)
BotProcs == {"bot1"}            \* bot /start handler (StartHandler.handle)
WebProcs == {"web1"}            \* callers of get_by_id and update
Procs == ApiProcs \cup BotProcs \cup WebProcs

NoneStr == "<None>"             \* Python None in an Optional[str] position

-----------------------------------------------------------------------------
(* str helpers *)

\* "".join(atoms)
RECURSIVE Join(_)
Join(s) == IF s = <<>> THEN "" ELSE Head(s) \o Join(Tail(s))

\* str.split(sep): always at least one part
RECURSIVE Split(_, _)
Split(s, sep) ==
    IF s = <<>> THEN << <<>> >>
    ELSE LET rest == Split(Tail(s), sep)
         IN  IF Head(s) = sep
             THEN << <<>> >> \o rest
             ELSE << <<Head(s)>> \o Head(rest) >> \o Tail(rest)

\* str.split("=", 1)
SplitFirstEq(seg) ==
    IF \E i \in 1..Len(seg) : seg[i] = "="
    THEN LET i == CHOOSE j \in 1..Len(seg) :
                     /\ seg[j] = "="
                     /\ \A k \in 1..(j-1) : seg[k] # "="
         IN  << SubSeq(seg, 1, i-1), SubSeq(seg, i+1, Len(seg)) >>
    ELSE << seg >>

\* int(s) for the decimal strings that occur; any other string raises ValueError
IntTable ==
    ("7" :> 7) @@ ("1" :> 1) @@ ("5" :> 5)
    @@ ("13599" :> 13599) @@ ("13600" :> 13600) @@ ("13601" :> 13601)
    @@ ("100100" :> 100100)

IsIntStr(s) == s \in DOMAIN IntTable
IntOf(s) == IntTable[s]

\* the str "h" + U+00E9, a received hash with a non-ASCII character
NonAsciiHash == "h<U+00E9>"

\* hmac.compare_digest accepts str arguments only when they are ASCII
IsAscii(s) == s # NonAsciiHash

-----------------------------------------------------------------------------
(* urllib.parse.parse_qsl(qs) with its defaults keep_blank_values=False,   *)
(* strict_parsing=False, separator="&": empty segments, segments without   *)
(* "=" and segments with an empty value are skipped; nothing raises.       *)

RECURSIVE QslPairs(_)
QslPairs(segs) ==
    IF segs = <<>> THEN <<>>
    ELSE LET nv == SplitFirstEq(Head(segs))
             rest == QslPairs(Tail(segs))
         IN  IF Head(segs) = <<>> THEN rest
             ELSE IF Len(nv) # 2 THEN rest
             ELSE IF Len(nv[2]) = 0 THEN rest
             ELSE << <<Join(nv[1]), Join(nv[2])>> >> \o rest

parse_qsl(qs) == IF qs = <<>> THEN <<>> ELSE QslPairs(Split(qs, "&"))

(* A dict is the sequence of its (key, value) items in insertion order,     *)
(* one item per key, as Python dicts keep them.                            *)

EmptyDict == <<>>

\* set(d.keys())
Keys(d) == { d[i][1] : i \in DOMAIN d }

\* d[key], for a key that is present
Get(d, key) == d[CHOOSE i \in DOMAIN d : d[i][1] = key][2]

\* d[key] = value: an existing key keeps its position, a new one goes last
DictSet(d, key, value) ==
    IF key \in Keys(d)
    THEN [i \in DOMAIN d |-> IF d[i][1] = key THEN <<key, value>> ELSE d[i]]
    ELSE Append(d, <<key, value>>)

\* dict(pairs): a later pair with the same key replaces the earlier one
RECURSIVE DictOf(_)
DictOf(pairs) ==
    IF pairs = <<>> THEN EmptyDict
    ELSE LET init == DictOf(SubSeq(pairs, 1, Len(pairs) - 1))
             last == pairs[Len(pairs)]
         IN  DictSet(init, last[1], last[2])

\* TelegramAuth.parse_init_data
parse_init_data(init_data) == DictOf(parse_qsl(init_data))

\* dict.pop(key) as the dict that remains
RECURSIVE DictWithout(_, _)
DictWithout(d, key) ==
    IF d = <<>> THEN <<>>
    ELSE IF Head(d)[1] = key THEN DictWithout(Tail(d), key)
    ELSE <<Head(d)>> \o DictWithout(Tail(d), key)

-----------------------------------------------------------------------------
(* TelegramAuth.validate_signature *)

\* code point order of the keys that occur, as sorted() compares them
KeyRank ==
    ("a" :> 1) @@ ("auth_date" :> 2) @@ ("b" :> 3) @@ ("hash" :> 4)
    @@ ("query_id" :> 5) @@ ("user" :> 6)

\* mutant: the items are taken in the order the token gave them
sorted_items_InsertionOrder(data) == data

\* sorted(data.items()): keys are unique, so the key alone orders the items
RECURSIVE sorted_items(_)
sorted_items(data) ==
    IF data = <<>> THEN <<>>
    ELSE LET m == CHOOSE k \in Keys(data) :
                      \A o \in Keys(data) : KeyRank[k] <= KeyRank[o]
         IN  << <<m, Get(data, m)>> >> \o sorted_items(DictWithout(data, m))

\* "\n".join(f"{k}={v}" for k, v in items)
RECURSIVE JoinLines(_)
JoinLines(items) ==
    IF items = <<>> THEN ""
    ELSE LET line == Head(items)[1] \o "=" \o Head(items)[2]
         IN  IF Len(items) = 1 THEN line
             ELSE line \o "\n" \o JoinLines(Tail(items))

data_check_string(data) == JoinLines(sorted_items(data))

\* HMAC-SHA256 as a symbolic, collision-free digest of (key, msg)
HmacSha256(key, msg) == "hmac<" \o key \o "|" \o msg \o ">"

computed_hash(data, bot_token) ==
    HmacSha256(HmacSha256("WebAppData", bot_token), data_check_string(data))

\* mutant: the digest is never compared
validate_signature_Unchecked(data, received_hash, bot_token) ==
    IF bot_token = "" THEN "ValueError" ELSE "True"

\* mutant: an empty bot token is used as the key instead of being refused
validate_signature_NoConfigCheck(data, received_hash, bot_token) ==
    IF ~IsAscii(received_hash) THEN "TypeError"
    ELSE IF computed_hash(data, bot_token) = received_hash THEN "True"
    ELSE "False"

\* outcome of validate_signature: "True", "False" or the exception raised
validate_signature(data, received_hash, bot_token) ==
    IF bot_token = "" THEN "ValueError"
    ELSE IF ~IsAscii(received_hash) THEN "TypeError"
    ELSE IF computed_hash(data, bot_token) = received_hash THEN "True"
    ELSE "False"

-----------------------------------------------------------------------------
(* TelegramAuth.check_expiration *)

\* mutant: the comparison is strict
check_expiration_Strict(auth_date, max_age_seconds, current_timestamp) ==
    IF IsIntStr(auth_date)
    THEN (current_timestamp - IntOf(auth_date)) < max_age_seconds
    ELSE FALSE

\* mutant: a value int() rejects counts as fresh
check_expiration_NonIntFresh(auth_date, max_age_seconds, current_timestamp) ==
    IF IsIntStr(auth_date)
    THEN (current_timestamp - IntOf(auth_date)) <= max_age_seconds
    ELSE TRUE

\* int(auth_date) raising ValueError or TypeError is caught and gives False
check_expiration(auth_date, max_age_seconds, current_timestamp) ==
    IF IsIntStr(auth_date)
    THEN (current_timestamp - IntOf(auth_date)) <= max_age_seconds
    ELSE FALSE

-----------------------------------------------------------------------------
(* json.loads on the texts that occur as the `user` value.  A decoded      *)
(* object is [ok, isdict, idType, id, username, first_name, last_name];    *)
(* idType is the JSON type of "id" ("absent" when the key is missing) and  *)
(* a missing name is NoneStr, as dict.get returns None for it.             *)

JsonValue(isdict, idType, id, un, fn, ln) ==
    [ok |-> TRUE, isdict |-> isdict, idType |-> idType, id |-> id,
     username |-> un, first_name |-> fn, last_name |-> ln]

JSONDecodeError ==
    [ok |-> FALSE, isdict |-> FALSE, idType |-> "absent", id |-> 0,
     username |-> NoneStr, first_name |-> NoneStr, last_name |-> NoneStr]

U_Ann    == "{\"id\":42,\"first_name\":\"Ann\"}"
U_Anna   == "{\"id\":42,\"first_name\":\"Anna\"}"
U_Lee    == "{\"id\":42,\"username\":\"ann\",\"last_name\":\"Lee\"}"
U_Bob    == "{\"id\":43,\"first_name\":\"Bob\"}"
U_NoId   == "{\"first_name\":\"Ann\"}"
U_Zero   == "{\"id\":0,\"first_name\":\"Ann\"}"
U_Null   == "{\"id\":null}"
U_StrId  == "{\"id\":\"abc\"}"
U_List   == "[42]"
U_NotJson == "{id:42"

json_loads(s) ==
    CASE s = U_Ann   -> JsonValue(TRUE, "int", 42, NoneStr, "Ann", NoneStr)
      [] s = U_Anna  -> JsonValue(TRUE, "int", 42, NoneStr, "Anna", NoneStr)
      [] s = U_Lee   -> JsonValue(TRUE, "int", 42, "ann", NoneStr, "Lee")
      [] s = U_Bob   -> JsonValue(TRUE, "int", 43, NoneStr, "Bob", NoneStr)
      [] s = U_NoId  -> JsonValue(TRUE, "absent", 0, NoneStr, "Ann", NoneStr)
      [] s = U_Zero  -> JsonValue(TRUE, "int", 0, NoneStr, "Ann", NoneStr)
      [] s = U_Null  -> JsonValue(TRUE, "null", 0, NoneStr, NoneStr, NoneStr)
      [] s = U_StrId -> JsonValue(TRUE, "str", 0, NoneStr, NoneStr, NoneStr)
      [] s = U_List  -> JsonValue(FALSE, "absent", 0, NoneStr, NoneStr, NoneStr)
      [] OTHER       -> JSONDecodeError

\* bool(user_data.get("id")): a non-zero number or a non-empty string
Truthy(v) == \/ v.idType = "int" /\ v.id # 0
             \/ v.idType = "str"

-----------------------------------------------------------------------------
(* get_current_user up to its call of the store: everything before         *)
(* `await uow.users.get_or_create` runs without suspension.                *)

\* `cause` is the exception the store raised, which the gate logs and
\* replaces; `log` is what the request wrote to the application log; `txn`
\* is how the get_session() block of the operation ended
RaiseFrom(exc, detail, cause) ==
    [out |-> "raise", exc |-> exc, detail |-> detail, uid |-> 0, via |-> "none",
     created |-> FALSE, cause |-> cause, log |-> <<>>, txn |-> "none"]

Raise(exc, detail) == RaiseFrom(exc, detail, "")

Return(uid, via, created) ==
    [out |-> "return", exc |-> "", detail |-> "", uid |-> uid, via |-> via,
     created |-> created, cause |-> "", log |-> <<>>, txn |-> "none"]

NoResult ==
    [out |-> "none", exc |-> "", detail |-> "", uid |-> 0, via |-> "none",
     created |-> FALSE, cause |-> "", log |-> <<>>, txn |-> "none"]

\* logger.exception(f"Failed to create user: telegram_id={telegram_id}, error={e}")
LogLine(telegram_id, error) ==
    [msg |-> "Failed to create user", telegram_id |-> telegram_id, error |-> error]

\* mutant: `if config.api.debug_token is not None:`
DebugEnabled_NotNone(debug_token) == debug_token # NoneStr

\* `if config.api.debug_token:` (None and "" are falsy)
DebugEnabled(debug_token) == debug_token # NoneStr /\ debug_token # ""

\* mutant: the segment count is not tested
DebugMatch_AnyCount(token, debug_token) ==
    LET parts == Split(token, ";")
    IN  Join(parts[1]) = debug_token /\ Len(parts) >= 2

\* `parts[0] == config.api.debug_token and len(parts) == 2`
DebugMatch(token, debug_token) ==
    LET parts == Split(token, ";")
    IN  Join(parts[1]) = debug_token /\ Len(parts) = 2

\* arguments handed to get_or_create; intId is FALSE when telegram_id is
\* not an integer and the BigInteger bind parameter cannot be encoded;
\* user_id is the argument of get_by_id and update
StoreArgs(op, token, intId, tid, un, fn, ln) ==
    [op |-> op, token |-> token, at |-> 0, intId |-> intId, telegram_id |-> tid,
     username |-> un, first_name |-> fn, last_name |-> ln, user_id |-> 0]

NoCall == StoreArgs("none", <<>>, TRUE, 0, NoneStr, NoneStr, NoneStr)

\* mutant: a non-integer id silently becomes 0
DebugReturn_Default(id) ==
    IF IsIntStr(id)
    THEN Return(IntOf(id), "debug", FALSE)
    ELSE Return(0, "debug", FALSE)

\* `return int(parts[1])`
DebugReturn(id) ==
    IF IsIntStr(id)
    THEN Return(IntOf(id), "debug", FALSE)
    ELSE Raise("ValueError", "invalid literal for int()")

\* the stage at which get_current_user leaves its synchronous part, and how
GateUserStage(token, parsed_data) ==
    LET user_data == json_loads(Get(parsed_data, "user"))
    IN  IF ~user_data.ok
        THEN [stage |-> "user", r |-> Raise("HTTP401", "Invalid user data format")]
        ELSE IF ~user_data.isdict
        THEN [stage |-> "user", r |-> Raise("AttributeError", "no attribute get")]
        ELSE IF ~Truthy(user_data)
        THEN [stage |-> "user", r |-> Raise("HTTP401", "Missing user ID")]
        ELSE [stage |-> "store", r |-> NoResult]

\* mutant: freshness is tested before the signature
GateChecks_FreshnessFirst(token, parsed_data, received_hash, bot_token, current_timestamp) ==
    IF /\ "auth_date" \in Keys(parsed_data)
       /\ ~check_expiration(Get(parsed_data, "auth_date"), DefaultMaxAge, current_timestamp)
    THEN [stage |-> "freshness", r |-> Raise("HTTP401", "Init data expired")]
    ELSE LET sig == validate_signature(parsed_data, received_hash, bot_token)
         IN  IF sig = "ValueError"
             THEN [stage |-> "signature", r |-> Raise("ValueError", "bot_token not configured")]
             ELSE IF sig = "TypeError"
             THEN [stage |-> "signature", r |-> Raise("TypeError", "non-ASCII str in compare_digest")]
             ELSE IF sig = "False"
             THEN [stage |-> "signature", r |-> Raise("HTTP401", "Invalid signature")]
             ELSE GateUserStage(token, parsed_data)

\* signature, then freshness, then user extraction (lines 84-114)
GateChecks(token, parsed_data, received_hash, bot_token, current_timestamp) ==
    LET sig == validate_signature(parsed_data, received_hash, bot_token)
    IN  IF sig = "ValueError"
        THEN [stage |-> "signature", r |-> Raise("ValueError", "bot_token not configured")]
        ELSE IF sig = "TypeError"
        THEN [stage |-> "signature", r |-> Raise("TypeError", "non-ASCII str in compare_digest")]
        ELSE IF sig = "False"
        THEN [stage |-> "signature", r |-> Raise("HTTP401", "Invalid signature")]
        ELSE IF /\ "auth_date" \in Keys(parsed_data)
                /\ ~check_expiration(Get(parsed_data, "auth_date"), DefaultMaxAge,
                                     current_timestamp)
        THEN [stage |-> "freshness", r |-> Raise("HTTP401", "Init data expired")]
        ELSE GateUserStage(token, parsed_data)

GateSync(token, debug_token, bot_token, current_timestamp) ==
    IF token = <<>>
    THEN [stage |-> "input", r |-> Raise("HTTP401", "Not authenticated")]
    ELSE IF DebugEnabled(debug_token) /\ DebugMatch(token, debug_token)
    THEN [stage |-> "debug", r |-> DebugReturn(Join(Split(token, ";")[2]))]
    ELSE LET parsed == parse_init_data(token)
         IN  IF "hash" \notin Keys(parsed)
             THEN [stage |-> "fields", r |-> Raise("HTTP401", "Missing hash")]
             ELSE IF "user" \notin Keys(parsed)
             THEN [stage |-> "fields", r |-> Raise("HTTP401", "Missing user data")]
             ELSE GateChecks(token, DictWithout(parsed, "hash"), Get(parsed, "hash"),
                             bot_token, current_timestamp)

\* mutant: the identity is read from the first `user` segment of the token
GateStoreArgs_FirstUser(token) ==
    LET pairs == parse_qsl(token)
        i == CHOOSE j \in 1..Len(pairs) :
                 /\ pairs[j][1] = "user"
                 /\ \A k \in 1..(j-1) : pairs[k][1] # "user"
        user_data == json_loads(pairs[i][2])
    IN  StoreArgs("api", token, user_data.idType = "int", user_data.id,
                  user_data.username, user_data.first_name, user_data.last_name)

\* keyword arguments of the get_or_create call at the end of the gate
GateStoreArgs(token) ==
    LET user_data == json_loads(Get(parse_init_data(token), "user"))
    IN  StoreArgs("api", token, user_data.idType = "int", user_data.id,
                  user_data.username, user_data.first_name, user_data.last_name)

-----------------------------------------------------------------------------
(* Inputs: the raw tokens clients send, the /start messages the bot gets   *)

\* "k1=v1&k2=v2..." as atoms
RECURSIVE Encode(_)
Encode(pairs) ==
    IF pairs = <<>> THEN <<>>
    ELSE LET kv == << Head(pairs)[1], "=", Head(pairs)[2] >>
         IN  IF Len(pairs) = 1 THEN kv ELSE kv \o <<"&">> \o Encode(Tail(pairs))

\* what the Telegram client does: append hash = HMAC over the other fields
Sign(pairs, secret) ==
    pairs \o << <<"hash", computed_hash(DictOf(pairs), secret)>> >>

TelegramSecret == "S"       \* the bot token Telegram signs init data with
DebugToken == "D"

T_Empty      == <<>>
T_Debug7     == <<"D", ";", "7">>
T_DebugNaN   == <<"D", ";", "x">>
T_Debug3     == <<"D", ";", "7", ";", "1">>
T_Semi5      == <<";", "5">>
T_Other7     == <<"E", ";", "7">>
T_NoHash     == Encode(<< <<"user", U_Ann>> >>)
T_NoUser     == Encode(<< <<"auth_date", "13600">>, <<"hash", "deadbeef">> >>)
T_Ann        == Encode(Sign(<< <<"auth_date", "13600">>, <<"user", U_Ann>> >>, TelegramSecret))
T_Anna       == Encode(Sign(<< <<"user", U_Anna>> >>, TelegramSecret))
T_Lee        == Encode(Sign(<< <<"auth_date", "100100">>, <<"user", U_Lee>> >>, TelegramSecret))
T_Bob        == Encode(Sign(<< <<"query_id", "q">>, <<"user", U_Bob>> >>, TelegramSecret))
T_BadSigOld  == Encode(<< <<"auth_date", "13599">>, <<"user", U_Ann>>, <<"hash", "deadbeef">> >>)
T_WrongKey   == Encode(Sign(<< <<"auth_date", "13601">>, <<"user", U_Ann>> >>, "X"))
T_NonAscii   == Encode(<< <<"user", U_Ann>>, <<"hash", NonAsciiHash>> >>)
T_Stale      == Encode(Sign(<< <<"auth_date", "13599">>, <<"user", U_Ann>> >>, TelegramSecret))
T_DateNaN    == Encode(Sign(<< <<"auth_date", "abc">>, <<"user", U_Ann>> >>, TelegramSecret))
T_NotJson    == Encode(Sign(<< <<"user", U_NotJson>> >>, TelegramSecret))
T_List       == Encode(Sign(<< <<"user", U_List>> >>, TelegramSecret))
T_NoId       == Encode(Sign(<< <<"user", U_NoId>> >>, TelegramSecret))
T_Zero       == Encode(Sign(<< <<"user", U_Zero>> >>, TelegramSecret))
T_Null       == Encode(Sign(<< <<"user", U_Null>> >>, TelegramSecret))
T_StrId      == Encode(Sign(<< <<"user", U_StrId>> >>, TelegramSecret))

\* the signed payload of T_Ann and what a relay can make of it
P_Ann == << <<"auth_date", "13600">>, <<"user", U_Ann>> >>
H_Ann == computed_hash(DictOf(P_Ann), TelegramSecret)

T_AnnPerm    == Encode(<< <<"hash", H_Ann>>, <<"user", U_Ann>>, <<"auth_date", "13600">> >>)
T_TamperValue == Encode(<< <<"auth_date", "13600">>, <<"user", U_Anna>>, <<"hash", H_Ann>> >>)
T_TamperAdd  == Encode(<< <<"auth_date", "13600">>, <<"query_id", "q">>, <<"user", U_Ann>>,
                          <<"hash", H_Ann>> >>)
T_TamperDrop == Encode(<< <<"user", U_Ann>>, <<"hash", H_Ann>> >>)
T_TamperHash == Encode(P_Ann \o << <<"hash", "deadbeef">> >>)
T_TamperNonAscii == Encode(P_Ann \o << <<"hash", NonAsciiHash>> >>)

\* tokens that exercise the parser
T_JunkAnna   == <<"junk", "&">> \o T_Anna
T_AB         == <<"a", "=", "1", "&", "b", "=", "2", "&", "hash", "=", "abc">>
T_AA         == <<"a", "=", "1", "&", "a", "=", "2">>
T_Blank      == <<"a", "=", "&", "b", "=", "2">>

\* tokens that repeat the `user` key; the hash is that of user=<Ann>
H_AnnOnly == computed_hash(DictOf(<< <<"user", U_Ann>> >>), TelegramSecret)
T_TwoUsers   == Encode(<< <<"user", U_Bob>>, <<"user", U_Ann>>, <<"hash", H_AnnOnly>> >>)
T_TwoUsersFirst == Encode(<< <<"user", U_Ann>>, <<"user", U_Bob>>, <<"hash", H_AnnOnly>> >>)

Tokens ==
    { T_Empty, T_Debug7, T_DebugNaN, T_Debug3, T_Semi5, T_Other7, T_NoHash,
      T_NoUser, T_Ann, T_Anna, T_Lee, T_Bob, T_BadSigOld, T_WrongKey,
      T_NonAscii, T_Stale, T_DateNaN, T_NotJson, T_List, T_NoId, T_Zero,
      T_Null, T_StrId, T_AnnPerm, T_TamperValue, T_TamperAdd, T_TamperDrop,
      T_TamperHash, T_TamperNonAscii, T_JunkAnna, T_AB, T_AA, T_Blank,
      T_TwoUsers, T_TwoUsersFirst }

\* message.from_user of a /start message
StartMessages ==
    { StoreArgs("start", <<>>, TRUE, 42, "ann", "Ann", NoneStr),
      StoreArgs("start", <<>>, TRUE, 43, NoneStr, "Bob", NoneStr) }

\* arguments of a direct UserInteractor.create call
CreateArgs ==
    { StoreArgs("create", <<>>, TRUE, 42, NoneStr, "Ann", NoneStr) }

Configs ==
    [debug_token : {NoneStr, "", DebugToken}, bot_token : {"", TelegramSecret}]

-----------------------------------------------------------------------------
(* The users table and the transaction of one get_session() block          *)

Cols == {"username", "first_name", "last_name"}

Row(id, tid, un, fn, ln) ==
    [id |-> id, telegram_id |-> tid, username |-> un, first_name |-> fn,
     last_name |-> ln]

NoUser == Row(0, 0, NoneStr, NoneStr, NoneStr)

NoWrite == [kind |-> "none", row |-> NoUser, cols |-> {}]

\* select(User).where(User.telegram_id == telegram_id) ... scalar_one_or_none()
SelectByTelegramId(table, tid) ==
    IF \E u \in table : u.telegram_id = tid
    THEN CHOOSE u \in table : u.telegram_id = tid
    ELSE NoUser

\* mutant: the `is not None` half of the tests is dropped
ChangedCols_Overwrite(user, args) ==
    { c \in Cols : user[c] # args[c] }

\* the three `if x is not None and user.x != x` tests of get_or_create
ChangedCols(user, args) ==
    { c \in Cols : args[c] # NoneStr /\ user[c] # args[c] }

\* the user object after the assignments of get_or_create
Reconciled(user, args) ==
    [ c \in DOMAIN user |->
        IF c \in ChangedCols(user, args) THEN args[c] ELSE user[c] ]

\* mutant: the column is declared without unique=True
UniqueViolation_Off(table, tid) == FALSE

\* unique=True on users.telegram_id: an INSERT is refused when a committed
\* row already carries the telegram_id
UniqueViolation(table, tid) == \E u \in table : u.telegram_id = tid

\* mutant: the changed row is written as a new row under the same telegram_id
\* and the old one is removed
ApplyWrite_DeleteOnUpdate(table, w) ==
    CASE w.kind = "insert" -> table \cup {w.row}
      [] w.kind = "update" -> { u \in table : u.id # w.row.id }
      [] OTHER -> table

\* COMMIT of the flushed write
ApplyWrite(table, w) ==
    CASE w.kind = "insert" -> table \cup {w.row}
      [] w.kind = "update" ->
            { IF u.id = w.row.id
              THEN [ c \in DOMAIN u |-> IF c \in w.cols THEN w.row[c] ELSE u[c] ]
              ELSE u : u \in table }
      [] OTHER -> table

-----------------------------------------------------------------------------
(* The @cached wrapper of common/cache.py, applied as its docstring shows:  *)
(* @cached(ttl=300, key="user:{user_id}") on get_by_id.                     *)

CacheTtl == 300

\* key.format(**params)
CacheKey(user_id) == <<"user:", user_id>>

CacheKeys == { CacheKey(i) : i \in 1..MaxId }

\* _serialize(obj): "null" for None, else the columns of the User and the
\* "__model__" tag
serialize(obj) ==
    IF obj = NoUser THEN [model |-> "null", cols |-> NoUser]
    ELSE [model |-> "User", cols |-> obj]

\* _deserialize(data, model=None): the decoded columns
deserialize(data) == data.cols

\* what redis_client.get returns for a key Redis does not hold (None)
NoData == [model |-> NoneStr, cols |-> NoUser]

\* a key Redis does not hold
NoEntry == [present |-> FALSE, data |-> NoData, exp |-> 0]

\* redis_client.set(cache_key, data, ex=ttl) at time t
Entry(data, t) == [present |-> TRUE, data |-> data, exp |-> t + CacheTtl]

\* redis_client.get(cache_key) at time t: the data, or None for a miss
RedisGet(store, key, t) ==
    IF store[key].present /\ t < store[key].exp THEN store[key].data ELSE NoData

\* select(User).where(User.id == user_id) ... scalar_one_or_none()
SelectById(table, id) ==
    IF \E u \in table : u.id = id
    THEN CHOOSE u \in table : u.id = id
    ELSE NoUser

-----------------------------------------------------------------------------
(* Actions *)

InitWith(configs) ==
    /\ cfg \in configs
    /\ now = Epoch
    /\ dbUp = TRUE
    /\ users = {}
    /\ nextId = 1
    /\ pc = [p \in Procs |-> "idle"]
    /\ call = [p \in Procs |-> NoCall]
    /\ found = [p \in Procs |-> NoUser]
    /\ pend = [p \in Procs |-> NoWrite]
    /\ res = [p \in Procs |-> NoResult]
    /\ redisUp = TRUE
    /\ cache = [k \in CacheKeys |-> NoEntry]

\* get_current_user from its first line to the await of get_or_create
ApiRequest(p, token) ==
    /\ pc[p] = "idle"
    /\ LET g == GateSync(token, cfg.debug_token, cfg.bot_token, now)
       IN  IF g.stage = "store"
           THEN /\ pc' = [pc EXCEPT ![p] = "select"]
                /\ call' = [call EXCEPT ![p] = [GateStoreArgs(token) EXCEPT !.at = now]]
                /\ res' = res
           ELSE /\ pc' = [pc EXCEPT ![p] = "done"]
                /\ call' = [call EXCEPT ![p] =
                              [NoCall EXCEPT !.op = "api", !.token = token, !.at = now]]
                /\ res' = [res EXCEPT ![p] = g.r]
    /\ UNCHANGED <<cfg, redisUp, cache, now, dbUp, users, nextId, found, pend>>

\* StartHandler.handle up to the await of get_or_create
BotStart(p, msg) ==
    /\ pc[p] = "idle"
    /\ pc' = [pc EXCEPT ![p] = "select"]
    /\ call' = [call EXCEPT ![p] = msg]
    /\ UNCHANGED <<cfg, redisUp, cache, now, dbUp, users, nextId, found, pend, res>>

\* UserInteractor.create up to its flush
CreateCall(p, args) ==
    /\ pc[p] = "idle"
    /\ pc' = [pc EXCEPT ![p] = "insert"]
    /\ call' = [call EXCEPT ![p] = args]
    /\ UNCHANGED <<cfg, redisUp, cache, now, dbUp, users, nextId, found, pend, res>>

\* mutant: the response carries the text of the store's exception
StoreRaises_Leak(p, cause) ==
    /\ pc' = [pc EXCEPT ![p] = "done"]
    /\ pend' = [pend EXCEPT ![p] = NoWrite]
    /\ res' = [res EXCEPT ![p] =
                 IF call[p].op = "api"
                 THEN [RaiseFrom("HTTP500", cause, cause) EXCEPT
                          !.log = << LogLine(call[p].telegram_id, cause) >>,
                          !.txn = "rollback"]
                 ELSE [RaiseFrom(cause, "propagated", cause) EXCEPT
                          !.txn = "rollback"]]

\* mutant: get_session rolls back and does not re-raise
StoreRaises_Swallowed(p, cause) ==
    /\ pc' = [pc EXCEPT ![p] = "done"]
    /\ pend' = [pend EXCEPT ![p] = NoWrite]
    /\ res' = [res EXCEPT ![p] = [Return(0, "store", FALSE) EXCEPT !.txn = "rollback"]]

\* an exception inside `async with get_session()`: rollback, re-raise; the
\* gate logs it with the telegram_id and answers HTTP 500 "Internal error",
\* the bot lets it propagate
StoreRaises(p, cause) ==
    /\ pc' = [pc EXCEPT ![p] = "done"]
    /\ pend' = [pend EXCEPT ![p] = NoWrite]
    /\ res' = [res EXCEPT ![p] =
                 IF call[p].op = "api"
                 THEN [RaiseFrom("HTTP500", "Internal error", cause) EXCEPT
                          !.log = << LogLine(call[p].telegram_id, cause) >>,
                          !.txn = "rollback"]
                 ELSE [RaiseFrom(cause, "propagated", cause) EXCEPT
                          !.txn = "rollback"]]

\* the SELECT of get_or_create and the synchronous code after it
GocSelect(p) ==
    /\ pc[p] = "select"
    /\ IF ~dbUp \/ ~call[p].intId
       THEN /\ StoreRaises(p, IF ~dbUp THEN "OperationalError" ELSE "DataError")
            /\ found' = found
       ELSE LET user == SelectByTelegramId(users, call[p].telegram_id)
            IN  /\ found' = [found EXCEPT ![p] = user]
                /\ pc' = [pc EXCEPT ![p] =
                            IF user = NoUser THEN "insert"
                            ELSE IF ChangedCols(user, call[p]) # {} THEN "update"
                            ELSE "commit"]
                /\ UNCHANGED <<pend, res>>
    /\ UNCHANGED <<cfg, redisUp, cache, now, dbUp, users, nextId, call>>

\* session.add(user); flush(); refresh(user) of a new row.  The INSERT waits
\* while another open transaction holds an uncommitted row with the same
\* telegram_id, and draws its id from the sequence whether or not it succeeds.
GocInsert(p) ==
    /\ pc[p] = "insert"
    /\ IF ~dbUp
       THEN StoreRaises(p, "OperationalError") /\ nextId' = nextId
       ELSE /\ nextId <= MaxId
            /\ \A q \in Procs \ {p} :
                   ~(pend[q].kind = "insert"
                     /\ pend[q].row.telegram_id = call[p].telegram_id)
            /\ nextId' = nextId + 1
            /\ IF UniqueViolation(users, call[p].telegram_id)
               THEN StoreRaises(p, "IntegrityError")
               ELSE /\ pend' = [pend EXCEPT ![p] =
                                 [kind |-> "insert",
                                  row |-> Row(nextId, call[p].telegram_id,
                                              call[p].username, call[p].first_name,
                                              call[p].last_name),
                                  cols |-> Cols]]
                    /\ pc' = [pc EXCEPT ![p] = "commit"]
                    /\ res' = res
    /\ UNCHANGED <<cfg, redisUp, cache, now, dbUp, users, call, found>>

\* session.add(user); flush(); refresh(user) of a changed row.  The UPDATE
\* sets the changed columns only and waits for the row lock.
GocUpdate(p) ==
    /\ pc[p] = "update"
    /\ IF ~dbUp
       THEN StoreRaises(p, "OperationalError")
       ELSE /\ \A q \in Procs \ {p} :
                   ~(pend[q].kind = "update" /\ pend[q].row.id = found[p].id)
            /\ pend' = [pend EXCEPT ![p] =
                          [kind |-> "update",
                           row |-> Reconciled(found[p], call[p]),
                           cols |-> ChangedCols(found[p], call[p])]]
            /\ pc' = [pc EXCEPT ![p] = "commit"]
            /\ res' = res
    /\ UNCHANGED <<cfg, redisUp, cache, now, dbUp, users, nextId, call, found>>

\* mutant: every call reports a creation
Created_Always(user) == TRUE

\* `return user, False` for a row that was found, `return user, True` else
Created(user) == user = NoUser

\* mutant: a commit that fails leaves the flushed write in the table
Commit_NoRollback(p) ==
    /\ pc[p] = "commit"
    /\ IF ~dbUp
       THEN StoreRaises(p, "OperationalError") /\ users' = ApplyWrite(users, pend[p])
       ELSE /\ users' = ApplyWrite(users, pend[p])
            /\ pend' = [pend EXCEPT ![p] = NoWrite]
            /\ pc' = [pc EXCEPT ![p] = "done"]
            /\ res' = [res EXCEPT ![p] =
                         [Return(IF pend[p].kind = "insert" THEN pend[p].row.id
                                 ELSE found[p].id,
                                 "store",
                                 Created(found[p])) EXCEPT !.txn = "commit"]]
    /\ UNCHANGED <<cfg, redisUp, cache, now, dbUp, nextId, call, found>>

\* leaving `async with get_session()`: session.commit(), then the return
Commit(p) ==
    /\ pc[p] = "commit"
    /\ IF ~dbUp
       THEN StoreRaises(p, "OperationalError") /\ users' = users
       ELSE /\ users' = ApplyWrite(users, pend[p])
            /\ pend' = [pend EXCEPT ![p] = NoWrite]
            /\ pc' = [pc EXCEPT ![p] = "done"]
            /\ res' = [res EXCEPT ![p] =
                         [Return(IF pend[p].kind = "insert" THEN pend[p].row.id
                                 ELSE found[p].id,
                                 "store",
                                 Created(found[p])) EXCEPT !.txn = "commit"]]
    /\ UNCHANGED <<cfg, redisUp, cache, now, dbUp, nextId, call, found>>

\* the response is sent; the worker takes the next request
Finish(p) ==
    /\ pc[p] = "done"
    /\ pc' = [pc EXCEPT ![p] = "idle"]
    /\ call' = [call EXCEPT ![p] = NoCall]
    /\ found' = [found EXCEPT ![p] = NoUser]
    /\ res' = [res EXCEPT ![p] = NoResult]
    /\ UNCHANGED <<cfg, redisUp, cache, now, dbUp, users, nextId, pend>>

\* PostgreSQL becomes unreachable / reachable again
DbToggle ==
    /\ dbUp' = ~dbUp
    /\ UNCHANGED <<cfg, redisUp, cache, now, users, nextId, pc, call, found, pend, res>>

\* a second passes
Tick ==
    /\ now < Epoch + MaxTicks
    /\ now' = now + 1
    /\ UNCHANGED <<cfg, redisUp, cache, dbUp, users, nextId, pc, call, found, pend, res>>

\* the wrapper of @cached up to the call of the wrapped function: a hit
\* returns the cached value, a miss or a Redis failure falls through
CachedGetById(p, user_id) ==
    /\ pc[p] = "idle"
    /\ call' = [call EXCEPT ![p] =
                  [NoCall EXCEPT !.op = "get_by_id", !.user_id = user_id, !.at = now]]
    /\ LET cached_data == IF redisUp
                          THEN RedisGet(cache, CacheKey(user_id), now)
                          ELSE NoData
       IN  IF cached_data # NoData
           THEN /\ found' = [found EXCEPT ![p] = deserialize(cached_data)]
                /\ pc' = [pc EXCEPT ![p] = "done"]
                /\ res' = [res EXCEPT ![p] =
                             Return(deserialize(cached_data).id, "cache", FALSE)]
           ELSE /\ pc' = [pc EXCEPT ![p] = "byid"]
                /\ UNCHANGED <<found, res>>
    /\ UNCHANGED <<cfg, redisUp, cache, now, dbUp, users, nextId, pend>>

\* mutant: the wrapper writes every result to the cache, None included
GetByIdSelect_CacheNone(p) ==
    /\ pc[p] = "byid"
    /\ IF ~dbUp
       THEN StoreRaises(p, "OperationalError") /\ found' = found
       ELSE LET user == SelectById(users, call[p].user_id)
            IN  /\ found' = [found EXCEPT ![p] = user]
                /\ pc' = [pc EXCEPT ![p] = "cset"]
                /\ res' = res
                /\ pend' = pend
    /\ UNCHANGED <<cfg, redisUp, cache, now, dbUp, users, nextId, call>>

\* UserInteractor.get_by_id: the SELECT and the commit of its session, and
\* the `if result is not None` of the wrapper: None is returned at once
GetByIdSelect(p) ==
    /\ pc[p] = "byid"
    /\ IF ~dbUp
       THEN StoreRaises(p, "OperationalError") /\ found' = found
       ELSE LET user == SelectById(users, call[p].user_id)
            IN  /\ found' = [found EXCEPT ![p] = user]
                /\ IF user = NoUser
                   THEN /\ pc' = [pc EXCEPT ![p] = "done"]
                        /\ res' = [res EXCEPT ![p] =
                                     [Return(0, "store", FALSE) EXCEPT !.txn = "commit"]]
                   ELSE /\ pc' = [pc EXCEPT ![p] = "cset"]
                        /\ res' = res
                /\ pend' = pend
    /\ UNCHANGED <<cfg, redisUp, cache, now, dbUp, users, nextId, call>>

\* `if result is not None:` redis_client.set(..., ex=ttl), a failure of which
\* is swallowed; then `return result`
CacheStore(p) ==
    /\ pc[p] = "cset"
    /\ cache' = IF redisUp
                THEN [cache EXCEPT ![CacheKey(call[p].user_id)] =
                         Entry(serialize(found[p]), now)]
                ELSE cache
    /\ pc' = [pc EXCEPT ![p] = "done"]
    /\ res' = [res EXCEPT ![p] =
                 [Return(found[p].id, "store", FALSE) EXCEPT !.txn = "commit"]]
    /\ UNCHANGED <<cfg, redisUp, now, dbUp, users, nextId, call, found, pend>>

\* UserInteractor.update(user_id, **kwargs) up to its SELECT
UpdateCall(p, args) ==
    /\ pc[p] = "idle"
    /\ pc' = [pc EXCEPT ![p] = "updsel"]
    /\ call' = [call EXCEPT ![p] = args]
    /\ UNCHANGED <<cfg, redisUp, cache, now, dbUp, users, nextId, found, pend, res>>

\* the SELECT of update and the setattr loop after it
UpdSelect(p) ==
    /\ pc[p] = "updsel"
    /\ IF ~dbUp
       THEN StoreRaises(p, "OperationalError") /\ found' = found
       ELSE LET user == SelectById(users, call[p].user_id)
            IN  /\ found' = [found EXCEPT ![p] = user]
                /\ IF user = NoUser
                   THEN /\ pc' = [pc EXCEPT ![p] = "done"]
                        /\ res' = [res EXCEPT ![p] =
                                     [Return(0, "store", FALSE) EXCEPT !.txn = "commit"]]
                   ELSE /\ pc' = [pc EXCEPT ![p] =
                                    IF ChangedCols(user, call[p]) # {} THEN "update"
                                    ELSE "commit"]
                        /\ res' = res
                /\ pend' = pend
    /\ UNCHANGED <<cfg, redisUp, cache, now, dbUp, users, nextId, call>>

\* invalidate(key): redis_client.delete, a failure of which is swallowed
Invalidate(user_id) ==
    /\ cache' = IF redisUp
                THEN [cache EXCEPT ![CacheKey(user_id)] = NoEntry]
                ELSE cache
    /\ UNCHANGED <<cfg, redisUp, now, dbUp, users, nextId, pc, call, found, pend, res>>

\* Redis becomes unreachable / reachable again
RedisToggle ==
    /\ redisUp' = ~redisUp
    /\ UNCHANGED <<cfg, cache, now, dbUp, users, nextId, pc, call, found, pend, res>>

(* The deployment: two API requests and the bot run concurrently against   *)
(* one database that comes and goes; the bot token is configured and no    *)
(* debug token is set.                                                     *)

ProdConfig == [debug_token |-> NoneStr, bot_token |-> TelegramSecret]

StoreTokens == { T_Ann, T_Anna, T_BadSigOld }

Init == InitWith({ProdConfig})

Next ==
    \/ \E p \in ApiProcs, token \in StoreTokens : ApiRequest(p, token)
    \/ \E p \in BotProcs, msg \in StartMessages : BotStart(p, msg)
    \/ \E p \in BotProcs, args \in CreateArgs : CreateCall(p, args)
    \/ \E p \in Procs : GocSelect(p)
    \/ \E p \in Procs : GocInsert(p)
    \/ \E p \in Procs : GocUpdate(p)
    \/ \E p \in Procs : Commit(p)
    \/ \E p \in Procs : Finish(p)
    \/ DbToggle

Spec == Init /\ [][Next]_vars

(* The gate alone: one request at a time, every token and configuration,   *)
(* a clock that advances and a database that comes and goes.               *)

GateProc == "api1"

InitGate == InitWith(Configs)

NextGate ==
    \/ \E token \in Tokens : ApiRequest(GateProc, token)
    \/ GocSelect(GateProc)
    \/ GocInsert(GateProc)
    \/ GocUpdate(GateProc)
    \/ Commit(GateProc)
    \/ Finish(GateProc)
    \/ DbToggle
    \/ Tick

SpecGate == InitGate /\ [][NextGate]_vars

(* The cached read path: one authenticating request writes through        *)
(* get_or_create while one caller reads through the cached get_by_id and   *)
(* writes through update; Redis and the database come and go.              *)

WebProc == "web1"

\* keyword arguments of update: a field that is NoneStr is not passed
UpdateArgs ==
    { [StoreArgs("update", <<>>, TRUE, 0, NoneStr, "Anna", NoneStr)
          EXCEPT !.user_id = 1] }

CacheTokens == { T_Ann, T_Anna }

InitCache == InitWith({ProdConfig})

NextCache ==
    \/ \E token \in CacheTokens : ApiRequest(GateProc, token)
    \/ \E user_id \in 1..MaxId : CachedGetById(WebProc, user_id)
    \/ GetByIdSelect(WebProc)
    \/ CacheStore(WebProc)
    \/ \E args \in UpdateArgs : UpdateCall(WebProc, args)
    \/ UpdSelect(WebProc)
    \/ \E p \in {GateProc, WebProc} : GocSelect(p)
    \/ \E p \in {GateProc, WebProc} : GocInsert(p)
    \/ \E p \in {GateProc, WebProc} : GocUpdate(p)
    \/ \E p \in {GateProc, WebProc} : Commit(p)
    \/ \E p \in {GateProc, WebProc} : Finish(p)
    \/ \E user_id \in 1..MaxId : Invalidate(user_id)
    \/ DbToggle
    \/ RedisToggle

SpecCache == InitCache /\ [][NextCache]_vars

TypeOK ==
    /\ cfg \in Configs
    /\ now \in Epoch..(Epoch + MaxTicks)
    /\ dbUp \in BOOLEAN
    /\ nextId \in 1..(MaxId + 1)
    /\ \A p \in Procs : pc[p] \in {"idle", "select", "insert", "update", "commit",
                                   "byid", "cset", "updsel", "done"}
    /\ redisUp \in BOOLEAN
    /\ \A k \in CacheKeys : cache[k].present \in BOOLEAN
    /\ \A u \in users : u.id \in 1..MaxId

-----------------------------------------------------------------------------
(* Vocabulary of the properties *)

\* the failure kinds of the error taxonomy, read off the exception raised
FailureKind(r) ==
    CASE r.exc = "HTTP401" /\ r.detail = "Not authenticated"        -> "Unauthenticated"
      [] r.exc = "HTTP401" /\ r.detail = "Invalid init data format" -> "MalformedToken"
      [] r.exc = "HTTP401" /\ r.detail = "Missing hash"             -> "MissingField"
      [] r.exc = "HTTP401" /\ r.detail = "Missing user data"        -> "MissingField"
      [] r.exc = "HTTP401" /\ r.detail = "Invalid signature"        -> "InvalidSignature"
      [] r.exc = "HTTP401" /\ r.detail = "Init data expired"        -> "Expired"
      [] r.exc = "HTTP401" /\ r.detail = "Invalid user data format" -> "InvalidUserPayload"
      [] r.exc = "HTTP401" /\ r.detail = "Missing user ID"          -> "MissingUserId"
      [] r.exc = "HTTP500" /\ r.detail = "Internal error"           -> "StoreError"
      [] r.exc = "ValueError" /\ r.detail = "bot_token not configured" -> "Misconfiguration"
      [] OTHER -> "Unclassified"

Taxonomy ==
    { "Unauthenticated", "MalformedToken", "MissingField", "InvalidSignature",
      "Expired", "InvalidUserPayload", "MissingUserId", "StoreError",
      "Misconfiguration" }

InStore(p) == pc[p] \in {"select", "insert", "update", "commit"}
ApiDone(p) == call[p].op = "api" /\ pc[p] = "done"
ApiReturned(p) == ApiDone(p) /\ res[p].out = "return"

HasKey(token, k) == k \in Keys(parse_init_data(token))

\* the token has the shape "<debug token>;<second segment>"
DebugShaped(token) ==
    LET parts == Split(token, ";")
    IN  /\ cfg.debug_token \notin {NoneStr, ""}
        /\ Len(parts) = 2
        /\ Join(parts[1]) = cfg.debug_token

DebugId(token) == Join(Split(token, ";")[2])

\* the received hash is the HMAC of the canonical check-string of the rest
HashMatches(token) ==
    LET parsed == parse_init_data(token)
    IN  /\ "hash" \in Keys(parsed)
        /\ Get(parsed, "hash") = computed_hash(DictWithout(parsed, "hash"), cfg.bot_token)

\* auth_date is absent, or was an integer not older than the maximum age
\* when the request was handled
WasFresh(token, at) ==
    LET parsed == parse_init_data(token)
    IN  "auth_date" \in Keys(parsed) =>
            /\ IsIntStr(Get(parsed, "auth_date"))
            /\ at - IntOf(Get(parsed, "auth_date")) <= DefaultMaxAge

\* the user JSON is an object with a truthy id
HasUserId(token) ==
    LET parsed == parse_init_data(token)
    IN  /\ "user" \in Keys(parsed)
        /\ LET u == json_loads(Get(parsed, "user"))
           IN  u.ok /\ u.isdict /\ Truthy(u)

-----------------------------------------------------------------------------
(* C1: whenever the gate hands a token to the store or returns a user id   *)
(* by a path other than the debug bypass, the token carried `hash` and     *)
(* `user`, the hash equals the HMAC of the check-string under the          *)
(* configured bot token, auth_date was absent or fresh, and the user JSON  *)
(* carried a truthy id.                                                    *)
C1_GateSound ==
    \A p \in Procs :
        ( /\ call[p].op = "api"
          /\ \/ InStore(p)
             \/ ApiReturned(p) /\ res[p].via # "debug" )
        => /\ HasKey(call[p].token, "hash")
           /\ HasKey(call[p].token, "user")
           /\ cfg.bot_token # ""
           /\ HashMatches(call[p].token)
           /\ WasFresh(call[p].token, call[p].at)
           /\ HasUserId(call[p].token)

C1_Witness ==
    \E p \in Procs :
        /\ ApiReturned(p) /\ res[p].via = "store"
        /\ call[p].token = T_Ann

(* C2: with the debug token unset (None) or empty, no token returns a user *)
(* id through the bypass: every returned id went through the store after   *)
(* the signature matched, also for ";<integer>" tokens.                    *)
C2_BypassDisabled ==
    cfg.debug_token \in {NoneStr, ""} =>
        \A p \in Procs :
            ApiReturned(p) =>
                /\ res[p].via = "store"
                /\ HashMatches(call[p].token)

C2_Witness ==
    \E p \in Procs :
        /\ cfg.debug_token = ""
        /\ ApiDone(p)
        /\ call[p].token = T_Semi5
        /\ res[p].out = "raise"

(* C3: two API requests that both found no row for the same new            *)
(* telegram_id, and neither of which met a database outage, both return    *)
(* the same internal id and exactly one row is created.                    *)
C3_BothGetSameId ==
    \A p \in ApiProcs, q \in ApiProcs :
        ( /\ p # q
          /\ ApiDone(p) /\ ApiDone(q)
          /\ call[p].telegram_id = call[q].telegram_id
          /\ found[p] = NoUser /\ found[q] = NoUser
          /\ res[p].via = "store" \/ FailureKind(res[p]) = "StoreError"
          /\ res[q].via = "store" \/ FailureKind(res[q]) = "StoreError"
          /\ res[p].cause # "OperationalError"
          /\ res[q].cause # "OperationalError" )
        => /\ res[p].out = "return" /\ res[q].out = "return"
           /\ res[p].uid = res[q].uid
           /\ Cardinality({u \in users : u.telegram_id = call[p].telegram_id}) = 1

(* C4: no two committed rows of the users table carry the same             *)
(* telegram_id, whatever API requests, /start handlers and create calls    *)
(* interleave.                                                             *)
C4_UniqueTelegramId ==
    \A u \in users, v \in users :
        u.telegram_id = v.telegram_id => u = v

\* an INSERT of a telegram_id that another call committed meanwhile was refused
C4_Witness ==
    \E p \in Procs :
        /\ pc[p] = "done"
        /\ res[p].cause = "IntegrityError"
        /\ \E u \in users : u.telegram_id = call[p].telegram_id

\* The stages of the pass in the order the claim gives them, each with the
\* condition under which the pass ends there (a failure, or the bypass taken)
StageOrder(token, at) ==
    LET parsed == parse_init_data(token)
        hasHash == "hash" \in Keys(parsed)
        hasUser == "user" \in Keys(parsed)
        parts == Split(token, ";")
        u == json_loads(Get(parsed, "user"))
    IN  << [stage |-> "input",      ends |-> token = <<>>],
           [stage |-> "debug",      ends |-> /\ cfg.debug_token \notin {NoneStr, ""}
                                             /\ Join(parts[1]) = cfg.debug_token
                                             /\ Len(parts) = 2],
           [stage |-> "parse",      ends |-> FALSE],
           [stage |-> "hash",       ends |-> ~hasHash],
           [stage |-> "user",       ends |-> ~hasUser],
           [stage |-> "signature",  ends |-> hasHash /\ ~( /\ cfg.bot_token # ""
                                                          /\ HashMatches(token) )],
           [stage |-> "freshness",  ends |-> ~WasFresh(token, at)],
           [stage |-> "user_json",  ends |-> hasUser /\ ~u.ok],
           [stage |-> "user_id",    ends |-> hasUser /\ u.ok /\ ~(u.isdict /\ Truthy(u))],
           [stage |-> "store",      ends |-> TRUE] >>

FirstEnding(token, at) ==
    LET order == StageOrder(token, at)
        i == CHOOSE j \in 1..Len(order) :
                 /\ order[j].ends
                 /\ \A k \in 1..(j-1) : ~order[k].ends
    IN  order[i].stage

\* the stage a finished request ended in, read off its outcome
EndedIn(r) ==
    CASE r.detail = "Not authenticated"                          -> "input"
      [] r.via = "debug" \/ r.detail = "invalid literal for int()" -> "debug"
      [] r.detail = "Invalid init data format"                   -> "parse"
      [] r.detail = "Missing hash"                               -> "hash"
      [] r.detail = "Missing user data"                          -> "user"
      [] r.detail \in {"Invalid signature", "bot_token not configured",
                       "non-ASCII str in compare_digest"}        -> "signature"
      [] r.detail = "Init data expired"                          -> "freshness"
      [] r.detail = "Invalid user data format"                   -> "user_json"
      [] r.detail \in {"Missing user ID", "no attribute get"}    -> "user_id"
      [] r.via = "store" \/ r.detail = "Internal error"          -> "store"
      [] OTHER                                                   -> "none"

C6_TypedOutcome ==
    \A p \in Procs :
        ApiDone(p) =>
            \/ res[p].out = "return"
            \/ res[p].out = "raise" /\ FailureKind(res[p]) \in Taxonomy

(* C7: with a debug token D configured, "D;<integer n>" returns n without  *)
(* the request ever entering the store (also while the database is down    *)
(* and whether or not a row with id n exists); a token whose first segment *)
(* is D but that has another number of segments is handled as if no debug  *)
(* token were configured.                                                  *)
C7_DebugBypass ==
    \A p \in Procs :
        ( /\ call[p].op = "api"
          /\ cfg.debug_token \notin {NoneStr, ""}
          /\ Join(Split(call[p].token, ";")[1]) = cfg.debug_token )
        => IF Len(Split(call[p].token, ";")) = 2
           THEN IsIntStr(DebugId(call[p].token)) =>
                    /\ pc[p] = "done"
                    /\ res[p] = Return(IntOf(DebugId(call[p].token)), "debug", FALSE)
                    /\ found[p] = NoUser
                    /\ pend[p] = NoWrite
           ELSE /\ res[p].via # "debug"
                /\ pc[p] = "done" =>
                      res[p] = GateSync(call[p].token, NoneStr, cfg.bot_token, call[p].at).r

C7_Witness ==
    \E p \in Procs :
        /\ ApiDone(p)
        /\ call[p].token = T_Debug7
        /\ res[p].uid = 7
        /\ ~dbUp
        /\ users = {}

(* C8: with a debug token D configured, "D;<non-integer>" fails: the       *)
(* request raises, carries no user id and never enters the store.          *)
C8_DebugNonInteger ==
    \A p \in Procs :
        ( /\ call[p].op = "api"
          /\ DebugShaped(call[p].token)
          /\ ~IsIntStr(DebugId(call[p].token)) )
        => /\ pc[p] = "done"
           /\ res[p].out = "raise"
           /\ res[p].uid = 0
           /\ res[p].via = "none"
           /\ found[p] = NoUser

C8_Witness ==
    \E p \in Procs :
        /\ ApiDone(p)
        /\ cfg.debug_token = DebugToken
        /\ call[p].token = T_DebugNaN
        /\ res[p].out = "raise"

\* the token gets as far as the signature stage
ReachesSignature(token) ==
    /\ token # <<>>
    /\ ~DebugShaped(token)
    /\ HasKey(token, "hash")
    /\ HasKey(token, "user")

(* C9: with an empty bot token, every token that reaches the signature     *)
(* stage ends in the configuration error, which is none of the             *)
(* authentication failures, and no request reaches the store.              *)
C9_FailClosed ==
    cfg.bot_token = "" =>
        \A p \in Procs :
            call[p].op = "api" =>
                /\ ~InStore(p)
                /\ res[p].via # "store"
                /\ (pc[p] = "done" /\ ReachesSignature(call[p].token)) =>
                      /\ res[p] = Raise("ValueError", "bot_token not configured")
                      /\ FailureKind(res[p]) = "Misconfiguration"
                      /\ res[p].exc # "HTTP401"

C9_Witness ==
    \E p \in Procs :
        /\ cfg.bot_token = ""
        /\ ApiDone(p)
        /\ call[p].token = T_WrongKey
        /\ FailureKind(res[p]) = "Misconfiguration"

(* C10: when get_or_create commits for a telegram_id that already had a    *)
(* row, the row keeps its id and telegram_id, each of username, first_name *)
(* and last_name is the supplied value if that is not None and the stored  *)
(* value otherwise, and the call returns that id with created = False.     *)
C10_Reconcile ==
    [][ \A p \in Procs :
          ( /\ pc[p] = "commit" /\ pc'[p] = "done"
            /\ res'[p].out = "return"
            /\ found[p] # NoUser )
          => LET old == SelectByTelegramId(users, call[p].telegram_id)
                 new == SelectByTelegramId(users', call[p].telegram_id)
             IN  /\ old # NoUser /\ new # NoUser
                 /\ new.id = old.id
                 /\ res'[p].uid = old.id
                 /\ res'[p].created = FALSE
                 /\ \A c \in Cols :
                       new[c] = IF call[p][c] # NoneStr THEN call[p][c] ELSE old[c]
                 /\ users' \ {new} = users \ {old}
      ]_vars

\* re-authentication changed Ann to Anna, a later token without first_name
\* added username and last_name and kept Anna
C10_Witness ==
    \E p \in Procs :
        /\ ApiReturned(p)
        /\ res[p].created = FALSE
        /\ call[p].token = T_Lee
        /\ users = {Row(res[p].uid, 42, "ann", "Anna", "Lee")}

-----------------------------------------------------------------------------
\* C11: stable identity mapping.  Over every sequence of authentications and
\* get_or_create calls, concurrent ones included, a stored record keeps its
\* telegram_id and its internal id for ever (no step changes either or removes
\* the record), and every call that returns from the store returns the id of
\* the record that carries the caller's telegram_id.
C11_StableIdentity ==
    /\ [][\A u \in users :
             \E v \in users' : v.id = u.id /\ v.telegram_id = u.telegram_id]_vars
    /\ [](\A p \in Procs :
             (pc[p] = "done" /\ res[p].out = "return" /\ res[p].via = "store")
                => \E u \in users : /\ u.id = res[p].uid
                                    /\ u.telegram_id = call[p].telegram_id)

\* a later authentication changed a field of the record and got the id the
\* record was created with
C11_Witness ==
    \E p \in ApiProcs :
        /\ ApiReturned(p)
        /\ ~res[p].created
        /\ call[p].token = T_Anna
        /\ \E u \in users : /\ u.id = res[p].uid
                            /\ u.telegram_id = 42
                            /\ u.first_name = "Anna"

-----------------------------------------------------------------------------
\* C12: store failures are opaque.  Whenever get_or_create ends a request of
\* the gate with an exception, the request fails with HTTP 500 and the one
\* detail "Internal error" (StoreError), whatever the cause and the token, and
\* by the time the failure is visible the log holds a line with the
\* telegram_id of the call and the exception.
C12_StoreFailuresOpaque ==
    [][\A p \in ApiProcs :
          (call[p].op = "api" /\ InStore(p) /\ pc'[p] = "done"
             /\ res'[p].out # "return")
            => /\ res'[p].out = "raise"
               /\ res'[p].exc = "HTTP500"
               /\ res'[p].detail = "Internal error"
               /\ FailureKind(res'[p]) = "StoreError"
               /\ res'[p].cause # ""
               /\ res'[p].log = << LogLine(call[p].telegram_id, res'[p].cause) >>]_vars

\* a uniqueness violation ended a request with the generic failure and a log
\* line for telegram id 42
C12_Witness ==
    \E p \in ApiProcs :
        /\ ApiDone(p)
        /\ res[p].cause = "IntegrityError"
        /\ FailureKind(res[p]) = "StoreError"
        /\ res[p].log = << LogLine(42, "IntegrityError") >>

-----------------------------------------------------------------------------
\* C13: cache transparency.  Every value the cached get_by_id returns from
\* the cache, within the TTL of the entry, is the value a direct read of the
\* store returns at that moment; after get_or_create or update has changed a
\* record, the cached read does not return the values from before the change.
C13_CacheTransparent ==
    [][\A p \in WebProcs :
          (pc[p] = "idle" /\ pc'[p] = "done" /\ res'[p].via = "cache")
            => found'[p] = SelectById(users, call'[p].user_id)]_vars

-----------------------------------------------------------------------------
\* the request of p got past the signature stage: the bot token is set, the
\* token is no bypass token, carries `hash` and `user`, and the hash matches
SignatureOk(p) ==
    /\ call[p].op = "api"
    /\ pc[p] = "done" \/ InStore(p)
    /\ cfg.bot_token # ""
    /\ ReachesSignature(call[p].token)
    /\ HashMatches(call[p].token)

AuthDate(token) == Get(parse_init_data(token), "auth_date")

\* C14: user extraction failures.  For a correctly signed, fresh token whose
\* `user` value is not valid JSON the gate fails InvalidUserPayload; if it is
\* valid JSON without a truthy id (id missing, null, 0, or not an object) the
\* gate fails MissingUserId; in both cases the store is not called.
C14_UserExtraction ==
    \A p \in ApiProcs :
        (SignatureOk(p) /\ WasFresh(call[p].token, call[p].at))
        => LET u == json_loads(Get(parse_init_data(call[p].token), "user"))
           IN  /\ ~u.ok =>
                     /\ pc[p] = "done"
                     /\ FailureKind(res[p]) = "InvalidUserPayload"
                     /\ found[p] = NoUser
               /\ (u.ok /\ ~(u.isdict /\ Truthy(u))) =>
                     /\ pc[p] = "done"
                     /\ FailureKind(res[p]) = "MissingUserId"
                     /\ found[p] = NoUser

-----------------------------------------------------------------------------
\* C15: freshness rule.  A correctly signed token with an integer auth_date
\* fails Expired iff now - int(auth_date) > 86400: an age of exactly 86400 is
\* fresh, an age of 86401 is stale, a timestamp in the future is fresh.
C15_FreshnessRule ==
    \A p \in ApiProcs :
        ( /\ SignatureOk(p)
          /\ HasKey(call[p].token, "auth_date")
          /\ IsIntStr(AuthDate(call[p].token)) )
        => LET age == call[p].at - IntOf(AuthDate(call[p].token))
               expired == pc[p] = "done" /\ FailureKind(res[p]) = "Expired"
           IN  /\ expired <=> ~(age <= DefaultMaxAge)
               /\ age = DefaultMaxAge => ~expired
               /\ age = DefaultMaxAge + 1 => expired
               /\ age < 0 => ~expired

\* a token exactly 86400 seconds old was accepted
C15_Witness ==
    \E p \in ApiProcs :
        /\ ApiReturned(p)
        /\ call[p].token = T_Ann
        /\ call[p].at - IntOf(AuthDate(T_Ann)) = DefaultMaxAge

-----------------------------------------------------------------------------
\* C16: freshness never raises.  A correctly signed token whose auth_date is
\* not an integer fails with the typed failure Expired (HTTP 401), no
\* exception escaping; a correctly signed token without auth_date skips the
\* freshness stage and ends in user extraction or the store.
C16_FreshnessNeverRaises ==
    \A p \in ApiProcs :
        SignatureOk(p)
        => /\ ( /\ HasKey(call[p].token, "auth_date")
                /\ ~IsIntStr(AuthDate(call[p].token)) )
              => /\ pc[p] = "done"
                 /\ res[p] = Raise("HTTP401", "Init data expired")
                 /\ FailureKind(res[p]) = "Expired"
           /\ ~HasKey(call[p].token, "auth_date")
              => \/ InStore(p)
                 \/ EndedIn(res[p]) \in {"user_json", "user_id", "store"}

\* auth_date=abc under a valid signature was refused as expired
C16_Witness ==
    \E p \in ApiProcs :
        /\ ApiDone(p)
        /\ call[p].token = T_DateNaN
        /\ cfg.bot_token = TelegramSecret
        /\ FailureKind(res[p]) = "Expired"

-----------------------------------------------------------------------------
\* the payload carries the hash its other entries have under the secret
IsSigned(d, secret) ==
    /\ "hash" \in Keys(d)
    /\ Get(d, "hash") = computed_hash(DictWithout(d, "hash"), secret)

\* payloads as Telegram signed them
Originals ==
    { parse_init_data(t) : t \in { u \in Tokens :
                                     IsSigned(parse_init_data(u), TelegramSecret) } }

\* d differs from o in the value of one key (`hash` included), or has one key
\* other than `hash` more, or one key other than `hash` less
SingleChange(d, o) ==
    \/ /\ Keys(d) = Keys(o)
       /\ Cardinality({ k \in Keys(o) : Get(d, k) # Get(o, k) }) = 1
    \/ \E k \in Keys(d) \ (Keys(o) \cup {"hash"}) :
          /\ Keys(d) = Keys(o) \cup {k}
          /\ \A j \in Keys(o) : Get(d, j) = Get(o, j)
    \/ \E k \in Keys(o) \ (Keys(d) \cup {"hash"}) :
          /\ Keys(d) = Keys(o) \ {k}
          /\ \A j \in Keys(d) : Get(d, j) = Get(o, j)

\* C17: signature round trip and tamper sensitivity.  Under the secret S the
\* gate is configured with, a payload carrying the hash Telegram computed with
\* S passes the signature stage, and a payload that differs from a signed one
\* by a single change (one value, one key added or removed, or the received
\* hash) is refused there with the verdict false, i.e. InvalidSignature.
C17_TamperSensitive ==
    cfg.bot_token = TelegramSecret =>
        \A p \in ApiProcs :
            ( /\ call[p].op = "api"
              /\ pc[p] = "done" \/ InStore(p)
              /\ ReachesSignature(call[p].token) )
            => LET d == parse_init_data(call[p].token)
               IN  /\ IsSigned(d, TelegramSecret) =>
                         \/ InStore(p)
                         \/ EndedIn(res[p]) # "signature"
                   /\ (\E o \in Originals : SingleChange(d, o)) =>
                         /\ pc[p] = "done"
                         /\ FailureKind(res[p]) = "InvalidSignature"

-----------------------------------------------------------------------------
RECURSIVE JoinSegments(_)
JoinSegments(segs) ==
    IF Len(segs) = 1 THEN Head(segs)
    ELSE Head(segs) \o <<"&">> \o JoinSegments(Tail(segs))

\* the tokens that carry the "&"-separated segments of token in any order
Reorderings(token) ==
    LET segs == Split(token, "&")
        n == Len(segs)
    IN  { JoinSegments([i \in 1..n |-> segs[f[i]]]) :
            f \in { g \in [1..n -> 1..n] :
                      \A a \in 1..n, b \in 1..n : a # b => g[a] # g[b] } }

DistinctKeys(token) ==
    Len(parse_qsl(token)) = Cardinality(Keys(parse_init_data(token)))

\* C18: canonical check-string.  The signed string lists the entries other
\* than `hash` as key=value in ascending key order, joined by newlines with
\* none at the end; so for a token with distinct keys the outcome of a request
\* (failure, or the arguments handed to the store) is the outcome of every
\* reordering of its key/value pairs.
C18_CanonicalCheckString ==
    \A p \in ApiProcs :
        (call[p].op = "api" /\ (pc[p] = "done" \/ InStore(p)))
        => /\ call[p].token \in {T_Ann, T_AnnPerm} =>
                 data_check_string(DictWithout(parse_init_data(call[p].token), "hash"))
                    = "auth_date=13600\nuser=" \o U_Ann
           /\ DistinctKeys(call[p].token) =>
                 \A t \in Reorderings(call[p].token) :
                    LET g == GateSync(t, cfg.debug_token, cfg.bot_token, call[p].at)
                    IN  IF InStore(p) \/ EndedIn(res[p]) = "store"
                        THEN /\ g.stage = "store"
                             /\ [GateStoreArgs(t) EXCEPT !.token = call[p].token,
                                                         !.at = call[p].at] = call[p]
                        ELSE g.r = res[p]

\* the token of Ann with hash first and auth_date last was accepted
C18_Witness ==
    \E p \in ApiProcs :
        /\ ApiReturned(p)
        /\ call[p].token = T_AnnPerm
        /\ res[p].via = "store"

-----------------------------------------------------------------------------
\* a non-empty "&"-separated segment without "="
HasBadSegment(token) ==
    LET segs == Split(token, "&")
    IN  \E i \in 1..Len(segs) :
           segs[i] # <<>> /\ \A j \in 1..Len(segs[i]) : segs[i][j] # "="

\* C19: structurally malformed tokens are rejected at the parse stage.  A
\* non-empty token that is no bypass token and has a segment without "="
\* fails MalformedToken, not a later failure kind, and never reaches the store.
C19_MalformedRejected ==
    \A p \in ApiProcs :
        ( /\ call[p].op = "api"
          /\ pc[p] = "done" \/ InStore(p)
          /\ call[p].token # <<>>
          /\ ~DebugShaped(call[p].token)
          /\ HasBadSegment(call[p].token) )
        => /\ pc[p] = "done"
           /\ FailureKind(res[p]) = "MalformedToken"

-----------------------------------------------------------------------------
\* the parsing rule of the claim: split on "&", split each segment that has
\* an "=" on its first "=", map each key to the value of its last occurrence
RefParse(token) ==
    LET segs == Split(token, "&")
        kv == { i \in 1..Len(segs) : Len(SplitFirstEq(segs[i])) = 2 }
        key(i) == Join(SplitFirstEq(segs[i])[1])
        val(i) == Join(SplitFirstEq(segs[i])[2])
    IN  [ k \in { key(i) : i \in kv } |->
            val(CHOOSE i \in kv : key(i) = k /\ \A j \in kv : key(j) = k => j <= i) ]

\* C20: parsing rule.  parse_init_data yields exactly the mapping of the
\* rule: every key=value segment is in the result under its key with the
\* value of the last occurrence and no segment is dropped; a=1&b=2&hash=abc
\* gives {a: 1, b: 2, hash: abc} and a=1&a=2 gives {a: 2}.
C20_ParsingRule ==
    \A p \in ApiProcs :
        call[p].op = "api"
        => LET parsed == parse_init_data(call[p].token)
               ref == RefParse(call[p].token)
           IN  /\ Keys(parsed) = DOMAIN ref
               /\ \A k \in Keys(parsed) : Get(parsed, k) = ref[k]
               /\ call[p].token = T_AB =>
                     /\ Keys(parsed) = {"a", "b", "hash"}
                     /\ Get(parsed, "a") = "1" /\ Get(parsed, "b") = "2"
                     /\ Get(parsed, "hash") = "abc"
               /\ call[p].token = T_AA =>
                     Keys(parsed) = {"a"} /\ Get(parsed, "a") = "2"

-----------------------------------------------------------------------------
\* the failures the gate raises before it calls the store
GateFailures ==
    { "Unauthenticated", "MalformedToken", "MissingField", "InvalidSignature",
      "Expired", "InvalidUserPayload", "MissingUserId" }

\* C21: failed authentication leaves the store unchanged.  A request that
\* ends in one of the gate's own failures, or in the debug bypass, ends in the
\* step it began in, with no SELECT done, no session opened, no id drawn and
\* the table as it was; a request that ends in StoreError leaves the table as
\* it was and no flushed write behind.
C21_FailureLeavesStore ==
    [][\A p \in ApiProcs :
          (call'[p].op = "api" /\ pc[p] # "done" /\ pc'[p] = "done")
            => /\ ( \/ FailureKind(res'[p]) \in GateFailures
                    \/ EndedIn(res'[p]) = "debug" )
                  => /\ pc[p] = "idle"
                     /\ users' = users
                     /\ nextId' = nextId
                     /\ found'[p] = NoUser
                     /\ pend'[p] = NoWrite
                     /\ res'[p].txn = "none"
               /\ FailureKind(res'[p]) = "StoreError"
                  => /\ users' = users
                     /\ pend'[p] = NoWrite
                     /\ res'[p].txn = "rollback"]_vars

\* the commit of a flushed INSERT failed: the id is spent, the table is empty
C21_Witness ==
    \E p \in ApiProcs :
        /\ ApiDone(p)
        /\ FailureKind(res[p]) = "StoreError"
        /\ found[p] = NoUser
        /\ nextId = 2
        /\ users = {}

-----------------------------------------------------------------------------
\* C22: the identity that is resolved is the identity that was signed.  For
\* every request that reaches the store, the received hash is the HMAC of a
\* check-string with exactly one `user` line, the arguments handed to
\* get_or_create are decoded from the value of that line, and that value is
\* the last `user` segment of the raw token.
C22_ResolvedIsSigned ==
    \A p \in ApiProcs :
        ( /\ call[p].op = "api"
          /\ InStore(p) \/ (pc[p] = "done" /\ EndedIn(res[p]) = "store") )
        => LET d == parse_init_data(call[p].token)
               signed == sorted_items(DictWithout(d, "hash"))
               lines == { i \in 1..Len(signed) : signed[i][1] = "user" }
           IN  /\ Get(d, "hash") =
                     HmacSha256(HmacSha256("WebAppData", cfg.bot_token),
                                JoinLines(signed))
               /\ Cardinality(lines) = 1
               /\ \A i \in lines :
                     LET u == json_loads(signed[i][2])
                     IN  /\ call[p].telegram_id = u.id
                         /\ call[p].username = u.username
                         /\ call[p].first_name = u.first_name
                         /\ call[p].last_name = u.last_name
                         /\ signed[i][2] = RefParse(call[p].token)["user"]

\* a token with user=<Bob>&user=<Ann>, signed over <Ann>, resolved to 42
C22_Witness ==
    \E p \in ApiProcs :
        /\ ApiReturned(p)
        /\ call[p].token = T_TwoUsers
        /\ call[p].telegram_id = 42
        /\ \E u \in users : u.id = res[p].uid /\ u.telegram_id = 42

-----------------------------------------------------------------------------
StoreExceptions == { "OperationalError", "IntegrityError", "DataError" }

\* C23: session transaction discipline.  Every step that takes a caller out
\* of its `async with get_session()` block is either the commit of a body
\* that did not raise (the flushed write becomes visible, the call returns)
\* or the rollback of a body that raised (nothing becomes visible, the
\* flushed write is gone, and the exception reaches the caller: unchanged
\* for the bot and for create, as the cause of the HTTP 500 for the gate).
C23_TransactionDiscipline ==
    [][\A p \in Procs :
          (InStore(p) /\ pc'[p] = "done")
            => \/ /\ pc[p] = "commit"
                  /\ res'[p].out = "return"
                  /\ res'[p].txn = "commit"
                  /\ users' = ApplyWrite(users, pend[p])
                  /\ pend'[p] = NoWrite
               \/ /\ res'[p].out = "raise"
                  /\ res'[p].txn = "rollback"
                  /\ res'[p].cause \in StoreExceptions
                  /\ ~dbUp => res'[p].cause = "OperationalError"
                  /\ call[p].op # "api" => res'[p].exc = res'[p].cause
                  /\ users' = users
                  /\ pend'[p] = NoWrite]_vars

\* the IntegrityError of a refused INSERT reached the caller of create after
\* the rollback
C23_Witness ==
    \E p \in BotProcs :
        /\ pc[p] = "done"
        /\ call[p].op = "create"
        /\ res[p].exc = "IntegrityError"
        /\ res[p].txn = "rollback"
        /\ pend[p] = NoWrite

-----------------------------------------------------------------------------
\* the row already holds every value the call supplies
ArgsStored(user, args) ==
    \A c \in Cols : args[c] # NoneStr => user[c] = args[c]

\* C24: get_or_create reports creation exactly.  A call that returns reports
\* created = True iff its SELECT found no row for the telegram_id, and then
\* its commit adds the row it returns; a call that finds a row which already
\* holds its arguments (as after an earlier call with the same arguments)
\* returns that row's id with created = False and changes nothing.
C24_CreatedExactly ==
    [][\A p \in Procs :
          ( /\ call[p].op \in {"api", "start"}
            /\ pc[p] = "commit" /\ pc'[p] = "done"
            /\ res'[p].out = "return" )
            => /\ res'[p].created <=> found[p] = NoUser
               /\ res'[p].created
                  => /\ \A u \in users : u.telegram_id # call[p].telegram_id
                     /\ users' = users \cup
                           { Row(res'[p].uid, call[p].telegram_id, call[p].username,
                                 call[p].first_name, call[p].last_name) }
               /\ (found[p] # NoUser /\ ArgsStored(found[p], call[p]))
                  => /\ res'[p].uid = found[p].id
                     /\ ~res'[p].created
                     /\ users' = users]_vars

\* a second /start of the same user found the row the first one created:
\* same id, created = False, the row as it was
C24_Witness ==
    \E p \in BotProcs :
        /\ pc[p] = "done"
        /\ call[p].op = "start"
        /\ call[p].telegram_id = 43
        /\ res[p].out = "return"
        /\ ~res[p].created
        /\ Row(res[p].uid, 43, NoneStr, "Bob", NoneStr) \in users

-----------------------------------------------------------------------------
\* C25: the @cached wrapper never changes a result because of cache trouble
\* or absence.  When the lookup misses or Redis is down the wrapper goes on to
\* the wrapped get_by_id and returns what that read from the store; a Redis
\* failure at the write is swallowed and the result is returned all the same;
\* a None result is returned without a write, so no entry ever stands for an
\* absent record and no cache hit ever returns None.
C25_CacheTroubleHarmless ==
    /\ [][\A p \in WebProcs :
             LET key == CacheKey(call'[p].user_id)
             IN  /\ ( /\ pc[p] = "idle" /\ call'[p].op = "get_by_id"
                      /\ ~redisUp \/ RedisGet(cache, key, now) = NoData )
                    => pc'[p] = "byid" /\ res'[p] = NoResult
                 /\ (pc[p] = "byid" /\ pc'[p] # "byid" /\ dbUp)
                    => /\ found'[p] = SelectById(users, call[p].user_id)
                       /\ res'[p].out # "raise"
                       /\ cache' = cache
                       /\ pc'[p] = "done" <=> found'[p] = NoUser
                       /\ pc'[p] = "done" => res'[p].uid = 0
                 /\ (pc[p] = "cset" /\ pc'[p] # "cset")
                    => /\ pc'[p] = "done"
                       /\ res'[p].out = "return"
                       /\ res'[p].uid = found[p].id
                       /\ found'[p] = found[p]
                       /\ found[p] # NoUser
                       /\ cache'[key] = IF redisUp
                                        THEN Entry(serialize(found[p]), now)
                                        ELSE cache[key]]_vars
    /\ [](\A k \in CacheKeys : cache[k].present => cache[k].data.cols # NoUser)
    /\ [](\A p \in WebProcs :
             (pc[p] = "done" /\ res[p].via = "cache") => found[p] # NoUser)

\* with Redis down the read came from the store and nothing was cached
C25_Witness ==
    \E p \in WebProcs :
        /\ pc[p] = "done"
        /\ call[p].op = "get_by_id"
        /\ res[p].via = "store"
        /\ found[p] # NoUser
        /\ ~redisUp
        /\ \A k \in CacheKeys : ~cache[k].present

====
